---- MODULE Spec2Model ----
(***************************************************************************)
(* TwitterStream (twitter_stream.py): credential validation, client       *)
(* construction, get_recent_tweets and get_stream_sample.                  *)
(*                                                                         *)
(* Python values are tagged records so that None, strings, datetimes,     *)
(* dicts and missing attributes stay distinguishable:                      *)
(*   [tag |-> "None"], [tag |-> "str", s |-> ..], [tag |-> "absent"],      *)
(*   [tag |-> "dict", d |-> function], [tag |-> "datetime", ...],          *)
(*   [tag |-> "list", items |-> sequence].                                 *)
(***************************************************************************)
EXTENDS Integers, Sequences, FiniteSets, TLC

VARIABLES
    env,          \* os.environ restricted to the five credential names
    hashtagArg,   \* the hashtag argument of the constructor
    phase,        \* "new" | "ready" | "failed"
    self,         \* the attributes of the TwitterStream instance
    ctorError,    \* the exception __init__ propagated, or None
    clientThrows, \* whether tweepy.Client(...) raises in this environment
    clientCalls,  \* keyword arguments of every tweepy.Client(...) construction
    op,           \* the last public method called
    countArg,     \* its count argument
    ext,          \* how the external search and the clock behave for this instance
    ret,          \* the list get_recent_tweets returned in that call
    sample,       \* the value get_stream_sample returned
    raised,       \* TRUE iff the last call raised to its caller
    searchCalls,  \* the search_recent_tweets invocations of the last call
    logs          \* the log levels emitted by the last call

vars == <<env, hashtagArg, phase, self, ctorError, clientThrows, clientCalls,
          op, countArg, ext, ret, sample, raised, searchCalls, logs>>

-----------------------------------------------------------------------------
(* Bounds of the model *)

MaxPosts == 2

-----------------------------------------------------------------------------
(* Python values *)

None == [tag |-> "None"]
Absent == [tag |-> "absent"]
Str(s) == [tag |-> "str", s |-> s]
Dict(d) == [tag |-> "dict", d |-> d]
List(items) == [tag |-> "list", items |-> items]

EmptyDict == [k \in {} |-> 0]

\* bool(v) for the values this program tests: None, str, datetime, list, object
Truthy(v) ==
    CASE v.tag = "None" -> FALSE
      [] v.tag = "str" -> v.s # ""
      [] v.tag = "list" -> v.items # <<>>
      [] OTHER -> TRUE

\* dict.get(key, default)
DictGet(d, key, default) == IF key \in DOMAIN d THEN d[key] ELSE default

RECURSIVE Join(_, _)
\* sep.join(names)
Join(sep, names) ==
    IF names = <<>> THEN ""
    ELSE IF Len(names) = 1 THEN names[1]
    ELSE names[1] \o sep \o Join(sep, Tail(names))

-----------------------------------------------------------------------------
(* Construction *)

BEARER == "TWITTER_BEARER_TOKEN"
API_KEY == "TWITTER_API_KEY"
API_SECRET == "TWITTER_API_SECRET"
ACCESS_TOKEN == "TWITTER_ACCESS_TOKEN"
ACCESS_TOKEN_SECRET == "TWITTER_ACCESS_TOKEN_SECRET"

EnvNames == {BEARER, API_KEY, API_SECRET, ACCESS_TOKEN, ACCESS_TOKEN_SECRET}
OAuthNames == EnvNames \ {BEARER}

\* os.environ.get(name): unset, set to the empty string, or set to a secret
EnvValues == {None, Str(""), Str("secret")}

Hashtags == {"#GrowWithGroqHack", "#ai"}

\* the attributes __init__ assigns from the environment (lines 16-20)
ReadEnv(e) ==
    [bearer_token |-> e[BEARER],
     api_key |-> e[API_KEY],
     api_secret |-> e[API_SECRET],
     access_token |-> e[ACCESS_TOKEN],
     access_token_secret |-> e[ACCESS_TOKEN_SECRET]]

MissingIf(v, name) == IF ~Truthy(v) THEN <<name>> ELSE <<>>

MissingPrefix ==
    "Missing required Twitter API credentials. Need either TWITTER_BEARER_TOKEN or OAuth credentials: "

MissingNamesNoBearer(s) ==
    MissingIf(s.api_key, API_KEY)
    \o MissingIf(s.api_secret, API_SECRET)
    \o MissingIf(s.access_token, ACCESS_TOKEN)
    \o MissingIf(s.access_token_secret, ACCESS_TOKEN_SECRET)

\* the missing list built at lines 39-49
MissingNames(s) ==
    MissingIf(s.bearer_token, BEARER)
    \o MissingIf(s.api_key, API_KEY)
    \o MissingIf(s.api_secret, API_SECRET)
    \o MissingIf(s.access_token, ACCESS_TOKEN)
    \o MissingIf(s.access_token_secret, ACCESS_TOKEN_SECRET)

CredentialsRejectedBearerOnly(s) == ~Truthy(s.bearer_token)

CredentialsRejectedStrict(s) ==
    LET oauth == Truthy(s.api_key) /\ Truthy(s.api_secret)
                 /\ Truthy(s.access_token) /\ Truthy(s.access_token_secret)
    IN ~Truthy(s.bearer_token) \/ ~oauth

\* the condition of line 37-38
CredentialsRejected(s) ==
    ~Truthy(s.bearer_token)
    /\ ~(Truthy(s.api_key) /\ Truthy(s.api_secret)
         /\ Truthy(s.access_token) /\ Truthy(s.access_token_secret))

\* _validate_credentials: raises ValueError or returns
validate_credentials(s) ==
    IF CredentialsRejected(s)
    THEN [raises |-> TRUE,
          exc |-> [type |-> "ValueError",
                   missing |-> MissingNames(s),
                   msg |-> MissingPrefix \o Join(", ", MissingNames(s))]]
    ELSE [raises |-> FALSE, exc |-> None]

\* tweepy.Client(**kwargs): every keyword not passed keeps its default None
ClientKwargs(bearer, ck, cs, at, ats) ==
    [bearer_token |-> bearer, consumer_key |-> ck, consumer_secret |-> cs,
     access_token |-> at, access_token_secret |-> ats]

ClientArgsPreferOAuth(s) ==
    IF Truthy(s.api_key) /\ Truthy(s.api_secret)
       /\ Truthy(s.access_token) /\ Truthy(s.access_token_secret)
    THEN ClientKwargs(None, s.api_key, s.api_secret, s.access_token, s.access_token_secret)
    ELSE ClientKwargs(s.bearer_token, None, None, None, None)

\* the keyword arguments _initialize_client passes (lines 57-68)
ClientArgs(s) ==
    IF Truthy(s.bearer_token)
    THEN ClientKwargs(s.bearer_token, None, None, None, None)
    ELSE ClientKwargs(None, s.api_key, s.api_secret, s.access_token, s.access_token_secret)

\* _initialize_client; clientThrows is whether tweepy.Client(...) raised
initialize_client(s, throws) ==
    IF throws
    THEN [raises |-> TRUE, exc |-> [type |-> "Exception"], client |-> None,
          calls |-> <<ClientArgs(s)>>, logs |-> <<"ERROR">>]
    ELSE [raises |-> FALSE, exc |-> None,
          client |-> [tag |-> "Client", kwargs |-> ClientArgs(s)],
          calls |-> <<ClientArgs(s)>>, logs |-> <<"INFO">>]

QueryOf(hashtag) == hashtag \o " -is:retweet"

\* TwitterStream.__init__(hashtag) against environment e
TwitterStream_init(e, hashtag, throws) ==
    LET s == ReadEnv(e)
        v == validate_credentials(s)
        c == initialize_client(s, throws)
    IN IF v.raises
       THEN [raises |-> TRUE, exc |-> v.exc, self |-> s,
             calls |-> <<>>, logs |-> <<>>]
       ELSE IF c.raises
       THEN [raises |-> TRUE, exc |-> c.exc, self |-> s,
             calls |-> c.calls, logs |-> c.logs]
       ELSE [raises |-> FALSE, exc |-> None,
             self |-> [bearer_token |-> s.bearer_token,
                       api_key |-> s.api_key,
                       api_secret |-> s.api_secret,
                       access_token |-> s.access_token,
                       access_token_secret |-> s.access_token_secret,
                       client |-> c.client,
                       hashtag |-> hashtag,
                       query |-> QueryOf(hashtag)],
             calls |-> c.calls, logs |-> c.logs \o <<"INFO">>]

-----------------------------------------------------------------------------
(* The external search capability and its responses *)

SampleCount == 5
DefaultCount == 10

\* the count arguments callers pass to get_recent_tweets
Counts == {1, DefaultCount}

\* the values carried by the sample responses
Sample ==
    [first_id |-> 100, known_author |-> 41, unknown_author |-> 42,
     followers |-> 7, retweets |-> 3, likes |-> 5]

DateTime(Y, M, D, h, m, s) ==
    [tag |-> "datetime", year |-> Y, month |-> M, day |-> D,
     hour |-> h, minute |-> m, second |-> s]

CreatedAt == DateTime(2024, 3, 5, 9, 7, 1)
Clock == {DateTime(2025, 11, 30, 23, 59, 58)}

Pad2(n) == IF n < 10 THEN "0" \o ToString(n) ELSE ToString(n)
Pad4(n) ==
    IF n < 10 THEN "000" \o ToString(n)
    ELSE IF n < 100 THEN "00" \o ToString(n)
    ELSE IF n < 1000 THEN "0" \o ToString(n)
    ELSE ToString(n)

\* dt.strftime("%Y-%m-%d %H:%M:%S")
strftime(dt) ==
    Pad4(dt.year) \o "-" \o Pad2(dt.month) \o "-" \o Pad2(dt.day) \o " "
    \o Pad2(dt.hour) \o ":" \o Pad2(dt.minute) \o ":" \o Pad2(dt.second)

\* public_metrics of a tweet: no such attribute, None, or a dict
TweetMetrics ==
    {Absent, None,
     Dict([k \in {"like_count"} |-> Sample.likes]),
     Dict([k \in {"retweet_count", "like_count"} |->
              IF k = "retweet_count" THEN Sample.retweets ELSE Sample.likes])}

\* a created_at that is a raw string instead of a datetime
MalformedCreatedAt == Str("2024-03-05T09:07:01Z")

\* the tweets the search may return at position i: every combination of
\* author, optional timestamp and metrics shape, and one with a malformed timestamp
PostsAt(i) ==
    {[tag |-> "Tweet", id |-> Sample.first_id + i, text |-> "hello",
      author_id |-> a, created_at |-> c, public_metrics |-> m] :
        a \in {Sample.known_author, Sample.unknown_author}, c \in {None, CreatedAt}, m \in TweetMetrics}
    \cup {[tag |-> "Tweet", id |-> Sample.first_id + i, text |-> "hello",
           author_id |-> Sample.known_author, created_at |-> MalformedCreatedAt,
           public_metrics |-> Dict(EmptyDict)]}

RECURSIVE PostSeqs(_)
PostSeqs(n) ==
    IF n = 0 THEN {<<>>}
    ELSE {Append(s, p) : s \in PostSeqs(n - 1), p \in PostsAt(n)}

\* public_metrics of a user: no such attribute, None, or a dict
UserMetrics ==
    {Absent, None, Dict(EmptyDict), Dict([k \in {"followers_count"} |-> Sample.followers])}

UserLists ==
    {<<[tag |-> "User", id |-> Sample.known_author, username |-> "alice", public_metrics |-> m]>> :
        m \in UserMetrics}

\* response.includes: None, a dict without 'users', or a dict with the users list
Includes ==
    {None, Dict(EmptyDict)} \cup {Dict([k \in {"users"} |-> ul]) : ul \in UserLists}

Min(a, b) == IF a < b THEN a ELSE b

\* what the service holds for the query: it throws, has no data, or has posts
Externals ==
    {[throws |-> TRUE, now |-> n, data |-> None, includes |-> None] : n \in Clock}
    \cup {[throws |-> FALSE, now |-> n, data |-> d, includes |-> i] :
            n \in Clock, d \in {None, List(<<>>)}, i \in {None, Dict(EmptyDict)}}
    \cup {[throws |-> FALSE, now |-> n, data |-> List(s), includes |-> i] :
            n \in Clock, s \in UNION {PostSeqs(k) : k \in 1..MaxPosts}, i \in Includes}

\* client.search_recent_tweets(max_results = count): at most count posts come back
search_recent_tweets(e, count) ==
    IF e.throws THEN [raises |-> TRUE, value |-> "TweepyException"]
    ELSE [raises |-> FALSE,
          value |-> [data |-> IF e.data.tag = "list"
                              THEN List(SubSeq(e.data.items, 1, Min(count, Len(e.data.items))))
                              ELSE e.data,
                     includes |-> e.includes]]

-----------------------------------------------------------------------------
(* get_recent_tweets *)

Ok(v) == [raises |-> FALSE, value |-> v]
Raise(type) == [raises |-> TRUE, value |-> type]

\* line 101: the id -> user dict (a later user with the same id wins)
users_dict(includes) ==
    IF includes.tag # "dict" THEN Raise("TypeError")
    ELSE IF "users" \in DOMAIN includes.d
    THEN LET ul == includes.d["users"]
             ids == {ul[k].id : k \in 1..Len(ul)}
             last(id) == CHOOSE k \in 1..Len(ul) :
                            /\ ul[k].id = id
                            /\ \A j \in (k + 1)..Len(ul) : ul[j].id # id
         IN Ok([id \in ids |-> ul[last(id)]])
    ELSE Ok([id \in {} |-> None])

\* line 105: users.get(tweet.author_id)
user_of(tweet, users) ==
    IF tweet.author_id \in DOMAIN users THEN users[tweet.author_id] ELSE None

\* line 106
username_of(user) ==
    IF Truthy(user) THEN "@" \o user.username ELSE "Unknown User"

\* line 109
timestamp_of(tweet, now) ==
    IF Truthy(tweet.created_at)
    THEN IF tweet.created_at.tag = "datetime"
         THEN Ok(strftime(tweet.created_at))
         ELSE Raise("AttributeError")
    ELSE Ok(strftime(now))

\* line 116
user_followers(user) ==
    IF Truthy(user)
    THEN CASE user.public_metrics.tag = "absent" -> Ok(0)
           [] user.public_metrics.tag = "dict" ->
                Ok(DictGet(user.public_metrics.d, "followers_count", 0))
           [] OTHER -> Raise("AttributeError")
    ELSE Ok(0)

\* lines 117-118: tweet.public_metrics.get(key, 0) if hasattr(...) else 0
tweet_metric(tweet, key) ==
    CASE tweet.public_metrics.tag = "absent" -> Ok(0)
      [] tweet.public_metrics.tag = "dict" -> Ok(DictGet(tweet.public_metrics.d, key, 0))
      [] OTHER -> Raise("AttributeError")

retweet_count_swapped(tweet) == tweet_metric(tweet, "like_count")

retweet_count(tweet) == tweet_metric(tweet, "retweet_count")

like_count(tweet) == tweet_metric(tweet, "like_count")

\* lines 104-119: one iteration of the loop body up to the dict literal
process_tweet(tweet, users, now) ==
    LET user == user_of(tweet, users)
        ts == timestamp_of(tweet, now)
        uf == user_followers(user)
        rc == retweet_count(tweet)
        lc == like_count(tweet)
    IN IF ts.raises THEN ts
       ELSE IF uf.raises THEN uf
       ELSE IF rc.raises THEN rc
       ELSE IF lc.raises THEN lc
       ELSE Ok([id |-> tweet.id,
                username |-> username_of(user),
                text |-> tweet.text,
                timestamp |-> ts.value,
                user_followers |-> uf.value,
                retweet_count |-> rc.value,
                like_count |-> lc.value])

RECURSIVE process_loop(_, _, _, _, _)
\* lines 103-120: the for loop, appending to processed_tweets
process_loop(data, i, users, now, processed_tweets) ==
    IF i > Len(data) THEN [raises |-> FALSE, processed |-> processed_tweets]
    ELSE LET r == process_tweet(data[i], users, now)
         IN IF r.raises
            THEN [raises |-> TRUE, processed |-> processed_tweets]
            ELSE process_loop(data, i + 1, users, now, Append(processed_tweets, r.value))

except_handler_reraise(processed_tweets) ==
    [ret |-> <<>>, raised |-> TRUE, logs |-> <<"ERROR">>]

except_handler_partial(processed_tweets) ==
    [ret |-> processed_tweets, raised |-> FALSE, logs |-> <<"ERROR">>]

\* lines 125-127: except Exception: log the error, return []
except_handler(processed_tweets) ==
    [ret |-> <<>>, raised |-> FALSE, logs |-> <<"ERROR">>]

SearchCall(s, count) ==
    [query |-> s.query, max_results |-> count,
     tweet_fields |-> <<"created_at", "public_metrics", "text">>,
     user_fields |-> <<"username", "name", "profile_image_url">>,
     expansions |-> <<"author_id">>]

search_invocations_retry(s, count, e) ==
    IF e.throws THEN <<SearchCall(s, count), SearchCall(s, count)>>
    ELSE <<SearchCall(s, count)>>

\* lines 85-91: the invocations of self.client.search_recent_tweets
search_invocations(s, count, e) == <<SearchCall(s, count)>>

\* get_recent_tweets(count) when the externals behave as e
get_recent_tweets(s, count, e) ==
    LET calls == search_invocations(s, count, e)
        WithCalls(r) == [ret |-> r.ret, raised |-> r.raised, logs |-> r.logs,
                         calls |-> calls]
        search == search_recent_tweets(e, count)
        response == search.value
    IN IF search.raises THEN WithCalls(except_handler(<<>>))
       ELSE IF ~Truthy(response.data)
       THEN WithCalls([ret |-> <<>>, raised |-> FALSE, logs |-> <<"WARNING">>])
       ELSE LET users == users_dict(response.includes)
                loop == process_loop(response.data.items, 1, users.value, e.now, <<>>)
            IN IF users.raises THEN WithCalls(except_handler(<<>>))
               ELSE IF loop.raises THEN WithCalls(except_handler(loop.processed))
               ELSE WithCalls([ret |-> loop.processed, raised |-> FALSE,
                               logs |-> <<"INFO">>])

last_of(tweets) == tweets[Len(tweets)]

\* tweets[0]
first_of(tweets) == tweets[1]

\* get_stream_sample() when the externals behave as e
get_stream_sample(s, e) ==
    LET r == get_recent_tweets(s, SampleCount, e)
    IN [tweets |-> r.ret, raised |-> r.raised, logs |-> r.logs, calls |-> r.calls,
        value |-> IF r.ret = <<>> THEN None ELSE first_of(r.ret)]

-----------------------------------------------------------------------------
(* State machine *)

FetchIdle ==
    /\ op = "none"
    /\ countArg = 0
    /\ ret = <<>>
    /\ sample = None
    /\ raised = FALSE
    /\ searchCalls = <<>>

\* before the constructor runs: any environment, any hashtag
InitConstruct ==
    /\ env \in [EnvNames -> EnvValues]
    /\ hashtagArg \in Hashtags
    /\ clientThrows \in BOOLEAN
    /\ ext = [throws |-> TRUE, now |-> None, data |-> None, includes |-> None]
    /\ phase = "new"
    /\ self = [tag |-> "uninitialized"]
    /\ ctorError = None
    /\ clientCalls = <<>>
    /\ logs = <<>>
    /\ FetchIdle

Construct ==
    /\ phase = "new"
    /\ LET r == TwitterStream_init(env, hashtagArg, clientThrows)
       IN /\ phase' = IF r.raises THEN "failed" ELSE "ready"
          /\ self' = r.self
          /\ ctorError' = r.exc
          /\ clientCalls' = r.calls
          /\ logs' = r.logs
    /\ UNCHANGED <<env, hashtagArg, clientThrows, op, countArg, ext, ret, sample, raised, searchCalls>>

NextConstruct == Construct

SpecConstruct == InitConstruct /\ [][NextConstruct]_vars

\* the instances whose methods are called: one per authentication scheme
ReadyInstances ==
    {[env |-> [n \in EnvNames |-> IF n = BEARER THEN Str("secret") ELSE None],
      hashtag |-> "#GrowWithGroqHack"],
     [env |-> [n \in EnvNames |-> IF n = BEARER THEN None ELSE Str("secret")],
      hashtag |-> "#ai"]}

\* after a successful construction
Init ==
    /\ \E inst \in ReadyInstances : env = inst.env /\ hashtagArg = inst.hashtag
    /\ clientThrows = FALSE
    /\ ext \in Externals
    /\ phase = "ready"
    /\ LET r == TwitterStream_init(env, hashtagArg, clientThrows)
       IN /\ self = r.self
          /\ ctorError = r.exc
          /\ clientCalls = r.calls
          /\ logs = r.logs
    /\ FetchIdle

GetRecentTweets ==
    /\ phase = "ready"
    /\ \E count \in Counts :
         LET r == get_recent_tweets(self, count, ext)
         IN /\ op' = "get_recent_tweets"
            /\ countArg' = count
            /\ ret' = r.ret
            /\ sample' = None
            /\ raised' = r.raised
            /\ searchCalls' = r.calls
            /\ logs' = r.logs
    /\ UNCHANGED <<env, hashtagArg, phase, self, ctorError, clientThrows, clientCalls, ext>>

GetStreamSample ==
    /\ phase = "ready"
    /\ LET r == get_stream_sample(self, ext)
       IN  /\ op' = "get_stream_sample"
            /\ countArg' = 0
            /\ ret' = r.tweets
            /\ sample' = r.value
            /\ raised' = r.raised
            /\ searchCalls' = r.calls
            /\ logs' = r.logs
    /\ UNCHANGED <<env, hashtagArg, phase, self, ctorError, clientThrows, clientCalls, ext>>

Next == GetRecentTweets \/ GetStreamSample

Spec == Init /\ [][Next]_vars

-----------------------------------------------------------------------------
(* Vocabulary of the properties *)

\* a value is present when it is set to a non-empty string
Present(name) == env[name].tag = "str" /\ env[name].s # ""
BearerPresent == Present(BEARER)
OAuthComplete == \A n \in OAuthNames : Present(n)
OAuthPartial == (\E n \in OAuthNames : Present(n)) /\ ~OAuthComplete
Constructed == phase # "new"
ConfigurationError == ctorError # None /\ ctorError.type = "ValueError"

\* the response the search gave to the last call
LastCount == IF op = "get_stream_sample" THEN SampleCount ELSE countArg
LastResponse == search_recent_tweets(ext, LastCount).value
HasPosts == ~ext.throws /\ LastResponse.data.tag = "list" /\ LastResponse.data.items # <<>>
LastPosts == IF HasPosts THEN LastResponse.data.items ELSE <<>>
SideTable ==
    IF ~ext.throws /\ ext.includes.tag = "dict" /\ "users" \in DOMAIN ext.includes.d
    THEN ext.includes.d["users"] ELSE <<>>
AuthorFound(post) == \E k \in 1..Len(SideTable) : SideTable[k].id = post.author_id
AuthorOf(post) == SideTable[CHOOSE k \in 1..Len(SideTable) : SideTable[k].id = post.author_id]
NoValue(metrics) == metrics.tag = "None"
LacksMetrics(post) == post.public_metrics.tag \in {"absent", "None"}

\* normalizing this post fails
PostFails(post) ==
    \/ NoValue(post.public_metrics)
    \/ post.created_at = MalformedCreatedAt
    \/ (AuthorFound(post) /\ NoValue(AuthorOf(post).public_metrics))

\* a failure occurred during the request or the normalization
FailureOccurred ==
    \/ ext.throws
    \/ HasPosts /\ ext.includes.tag = "None"
    \/ HasPosts /\ \E k \in 1..Len(LastPosts) : PostFails(LastPosts[k])

-----------------------------------------------------------------------------
(* Properties of construction (SpecConstruct) *)

\* C2 as stated: construction succeeds if and only if the bearer token is present
\* or all four OAuth1 values are present; otherwise it fails with the
\* configuration error and the client is never constructed.
C2_SucceedsIffCredentials ==
    Constructed =>
        /\ (phase = "ready") <=> (BearerPresent \/ OAuthComplete)
        /\ ~(BearerPresent \/ OAuthComplete) => ConfigurationError /\ clientCalls = <<>>

\* C2 amended: validation passes if and only if the bearer token is present or all
\* four OAuth1 values are present; when it does not pass, construction fails with
\* the configuration error and the client is never constructed; when it passes,
\* the client is constructed once and construction succeeds unless that
\* construction raises, in which case its exception propagates.
C2_ValidationIffCredentials ==
    Constructed =>
        /\ ~ConfigurationError <=> (BearerPresent \/ OAuthComplete)
        /\ ConfigurationError => phase = "failed" /\ clientCalls = <<>>
        /\ ~ConfigurationError =>
              /\ Len(clientCalls) = 1
              /\ (phase = "ready") <=> ~clientThrows
              /\ clientThrows => ctorError # None /\ ctorError.type = "Exception"

C2_Witness ==
    /\ phase = "ready"
    /\ ~BearerPresent
    /\ OAuthComplete
    /\ Len(clientCalls) = 1

\* C3 as stated: construction is rejected whenever both the bearer token and a
\* complete OAuth1 set are present, and whenever a nonempty incomplete subset of
\* the OAuth1 values is present (also next to a bearer token).
C3_ExactlyOneShape ==
    Constructed /\ ((BearerPresent /\ OAuthComplete) \/ OAuthPartial) => phase = "failed"

\* C3 amended: at least one shape must be fully present. A nonempty incomplete
\* OAuth1 subset is rejected with the configuration error when no bearer token is
\* present; with a bearer token present the credentials are accepted whether the
\* OAuth1 values are complete, partial or absent.
C3_AtLeastOneShape ==
    Constructed =>
        /\ OAuthPartial /\ ~BearerPresent => phase = "failed" /\ ConfigurationError
        /\ BearerPresent => ~ConfigurationError /\ (phase = "ready" <=> ~clientThrows)

C3_Witness ==
    /\ phase = "ready"
    /\ BearerPresent
    /\ OAuthPartial

\* C5: whenever the client is built, it is built with the bearer token alone if
\* the bearer token is present (even with all four OAuth1 values present), and
\* with the four OAuth1 values and no bearer token only if it is absent.
C5_AuthSchemeByBearer ==
    \A k \in 1..Len(clientCalls) :
        LET kw == clientCalls[k]
        IN /\ BearerPresent =>
                /\ kw.bearer_token = env[BEARER]
                /\ kw.consumer_key = None /\ kw.consumer_secret = None
                /\ kw.access_token = None /\ kw.access_token_secret = None
           /\ ~BearerPresent =>
                /\ kw.bearer_token = None
                /\ kw.consumer_key = env[API_KEY]
                /\ kw.consumer_secret = env[API_SECRET]
                /\ kw.access_token = env[ACCESS_TOKEN]
                /\ kw.access_token_secret = env[ACCESS_TOKEN_SECRET]
           /\ phase = "ready" => self.client.kwargs = kw

C5_Witness ==
    /\ phase = "ready"
    /\ BearerPresent
    /\ OAuthComplete
    /\ self.client.kwargs.consumer_key = None

\* C6: when construction fails for lack of credentials, the names listed in the
\* error message are exactly the names of the five values that are absent.
C6_MissingNamesExact ==
    ConfigurationError =>
        /\ {ctorError.missing[k] : k \in 1..Len(ctorError.missing)}
              = {n \in EnvNames : ~Present(n)}
        /\ ctorError.msg = MissingPrefix \o Join(", ", ctorError.missing)
        /\ \A j, k \in 1..Len(ctorError.missing) :
              j # k => ctorError.missing[j] # ctorError.missing[k]

C6_Witness ==
    /\ ConfigurationError
    /\ Present(API_KEY)
    /\ Present(ACCESS_TOKEN)
    /\ ctorError.missing = <<BEARER, API_SECRET, ACCESS_TOKEN_SECRET>>

-----------------------------------------------------------------------------
(* Properties of the fetch operations (Spec) *)

\* C1: get_recent_tweets never raises to its caller; it returns a list, and the
\* list is empty whenever a failure occurred during the request or normalization.
C1_NeverRaises ==
    op = "get_recent_tweets" =>
        /\ raised = FALSE
        /\ DOMAIN ret = 1..Len(ret)
        /\ FailureOccurred => ret = <<>>

C1_Witness ==
    /\ op = "get_recent_tweets"
    /\ HasPosts
    /\ Len(LastPosts) = 2
    /\ ~PostFails(LastPosts[1])
    /\ NoValue(LastPosts[2].public_metrics)
    /\ ret = <<>>
    /\ raised = FALSE

\* every field of the response is well formed; posts may still lack an author in
\* the side-table, the 'users' side-table itself, or their metrics
OnlyAuthorOrMetricsMissing ==
    /\ HasPosts
    /\ ext.includes.tag = "dict"
    /\ \A k \in 1..Len(SideTable) : ~NoValue(SideTable[k].public_metrics)
    /\ \A k \in 1..Len(LastPosts) : LastPosts[k].created_at # MalformedCreatedAt

\* C4: for a response with n >= 1 posts where the search did not fail, whatever
\* posts lack a matching author, the author side-table, or metrics (attribute
\* absent, or present with no value), get_recent_tweets returns exactly n
\* records, the i-th carrying the id of the i-th post.
C4_OneRecordPerPost ==
    (op = "get_recent_tweets" /\ OnlyAuthorOrMetricsMissing) =>
        /\ Len(ret) = Len(LastPosts)
        /\ \A i \in 1..Len(LastPosts) : ret[i].id = LastPosts[i].id

C8_SampleIsFirst ==
    op = "get_stream_sample" =>
        LET tweets == get_recent_tweets(self, SampleCount, ext).ret
        IN /\ raised = FALSE
           /\ (sample = None) <=> (tweets = <<>>)
           /\ tweets # <<>> => sample = tweets[1]

C8_Witness ==
    /\ op = "get_stream_sample"
    /\ Len(ret) = 2
    /\ sample = ret[1]
    /\ sample # ret[2]

C9_OneSearchPerCall ==
    op # "none" =>
        /\ Len(searchCalls) = 1
        /\ searchCalls[1].query = hashtagArg \o " -is:retweet"
        /\ searchCalls[1].max_results = IF op = "get_stream_sample" THEN 5 ELSE countArg

C9_ConstructionFixed ==
    /\ self' = self
    /\ clientCalls' = clientCalls
    /\ env' = env

\* C9: every call of get_recent_tweets(count) invokes the search exactly once, with
\* the query "<hashtag> -is:retweet" and max_results = count, whether it
\* succeeds, finds nothing or throws; get_stream_sample invokes it once with
\* max_results 5; no call changes the stored query, hashtag, credentials or client.
C9_NoRetries == [](C9_OneSearchPerCall) /\ [][C9_ConstructionFixed]_vars

C9_Witness ==
    /\ op = "get_stream_sample"
    /\ ext.throws
    /\ Len(searchCalls) = 1
    /\ searchCalls[1].max_results = 5
    /\ self.query = "#ai -is:retweet"

\* C10: the list get_recent_tweets returns for a response with n posts has length n
\* or 0; if normalizing the k-th post fails, the records built for the posts
\* before it are discarded and the result is empty.
C10_AllOrNothing ==
    op = "get_recent_tweets" =>
        /\ Len(ret) \in {0, Len(LastPosts)}
        /\ (\E k \in 1..Len(LastPosts) : PostFails(LastPosts[k])) => ret = <<>>

C10_Witness ==
    /\ op = "get_recent_tweets"
    /\ Len(LastPosts) = 2
    /\ ~PostFails(LastPosts[1])
    /\ ext.includes.tag = "dict"
    /\ LastPosts[2].created_at = MalformedCreatedAt
    /\ ret = <<>>

====
